---- MODULE Spec2Model ----
(***************************************************************************)
(* Model of NickCao/bouncer: the Invite Gate web service (src/src/main.rs) *)
(* with its startup (main), its three handlers (index, invite, callback)   *)
(* and the shared pending-invite map `csrf` behind a tokio Mutex.          *)
(* Every .await of a handler is one step of the model; the outcome of an   *)
(* external call is a nondeterministic choice made at that step.           *)
(***************************************************************************)
EXTENDS Integers, Sequences, FiniteSets, TLC

\* ------------------------------------------------------------------ bounds
\* Number of HTTP requests served in one behaviour.
MaxReqs == 3

Reqs == 1..MaxReqs

\* ------------------------------------------------------------ value domains
\* Room ids known to the homeserver.
RoomIds == {"!a:example.org", "!b:example.org"}

\* OwnedUserId, kept as its parsed parts (localpart, server name).
UserIds == { [localpart |-> "bot", server_name |-> "matrix.org"],
             [localpart |-> "alice", server_name |-> "example.org"] }

NoUser == [localpart |-> "", server_name |-> ""]

\* Values CsrfToken::new_random can produce, and a visitor can present.
TokenOrder == <<"t1", "t2", "t3">>

Tokens == {TokenOrder[i] : i \in DOMAIN TokenOrder}

NoToken == ""

\* Form(Invite): the deserialized body of POST /invite.  invite() returns for
\* a room outside the snapshot without reading user_id, so the forms for the
\* room the gatekeeper has not joined carry one user.
Invite == {f \in [room_id : RoomIds, user_id : UserIds, cf_turnstile_response : {"cf"}] :
              f.room_id = "!b:example.org" => f.user_id.localpart = "alice"}

NoInvite == [room_id |-> "", user_id |-> NoUser, cf_turnstile_response |-> ""]

\* Query(Callback): the deserialized query of GET /callback.
Callback == [code : {"code"}, state : Tokens]

NoCallback == [code |-> "", state |-> NoToken]

\* StatusCode values used by the handlers; Redirect::to answers 303.
OK == 200

SEE_OTHER == 303

BAD_REQUEST == 400

FORBIDDEN == 403

INTERNAL_SERVER_ERROR == 500

NoResp == [status |-> 0, body |-> "", location |-> NoToken]

Err(status, body) == [status |-> status, body |-> body, location |-> NoToken]

\* Processing time (Local::now()) and Duration::days(1), in seconds.
Now == 1000000

OneDay == 86400

\* created_at values the identity provider can report: 2 hours ago, exactly
\* one day ago, and one second more than a day ago.
CreatedAts == {Now - 7200, Now - OneDay, Now - (OneDay + 1)}

NoAge == 0 - 1

\* ------------------------------------------------------------------- state
VARIABLES
    mainPc,      \* position of main(): "joined_rooms", "summaries", "bind", "serve", "serving", "failed"
    joined,      \* rooms still to be summarised by main's loop (a sequence)
    canInvite,   \* world: rooms in which the gatekeeper has invite authority
    rooms,       \* AppState.rooms: room_id -> RoomInfo
    csrf,        \* AppState.csrf: token -> Invite
    lock,        \* owner of the csrf Mutex (0 = free)
    req,         \* per request: handler, pc, extracted input, locals, response
    calls,       \* per request: the external calls it has issued, in order
    src,         \* history: token -> request whose insert stored the live entry
    spent,       \* history: tokens removed by a callback and not stored again since
    hist,        \* per request: what the store held when the handler touched it
    botTimeline, \* Join Challenge Engine: the protected room's messages, by event index
    botSends,    \* the challenge messages the engine has sent
    botOverrides,\* the power-level overrides the engine has issued
    botEvent,    \* the event the engine handled last
    botSeen      \* number of events the engine has handled

botVars == <<botTimeline, botSends, botOverrides, botEvent, botSeen>>

vars == <<mainPc, joined, canInvite, rooms, csrf, lock, req, calls, src, spent, hist, botVars>>

\* --------------------------------------------------------- data structures
\* HashMap::default() / HashMap::new()
EmptyMap == [k \in {} |-> NoInvite]

\* HashMap::insert: stores v under k, replacing any value already there.
HashMapInsert(m, k, v) == [x \in (DOMAIN m) \cup {k} |-> IF x = k THEN v ELSE m[x]]

\* Mutant: every key is taken for present.
HashMapContainsKeyAlways(m, k) == TRUE

\* HashMap::contains_key
HashMapContainsKey(m, k) == k \in DOMAIN m

\* Mutant: the entry is read but left in the map (get instead of remove).
HashMapRemoveKeeps(m, k) == m

\* HashMap::remove, the map it leaves behind.
HashMapRemove(m, k) == [x \in (DOMAIN m) \ {k} |-> m[x]]

\* Mutant: a missing entry is taken for a present one (unwrap_or_default).
RemovedSomeAlways(m, k) == TRUE

\* HashMap::remove(..).ok_or(..): whether the removed Option is Some.
RemovedSome(m, k) == k \in DOMAIN m

\* The value HashMap::remove hands out (NoInvite stands for None).
RemovedValue(m, k) == IF k \in DOMAIN m THEN m[k] ELSE NoInvite

\* OwnedUserId::server_name
ServerName(user_id) == user_id.server_name

\* DateTime::signed_duration_since
SignedDurationSince(a, b) == a - b

\* Mutant: the comparison is turned around (ge for le).
LikelyAbusiveOldAccounts(user_id, age) == ServerName(user_id) = "matrix.org" /\ age >= OneDay

\* The policy test of callback: matrix.org and age.le(&Duration::days(1)).
LikelyAbusive(user_id, age) == ServerName(user_id) = "matrix.org" /\ age <= OneDay

\* Mutant: the verdict is not looked at.
VerificationNeverFails(success) == FALSE

\* `if !response.success` of invite.
VerificationFailed(success) == ~success

\* SpaceRoomJoinRule values a room summary can carry.
JoinRules == {"public", "invite", "knock", "private", "restricted", "knock_restricted"}

\* RoomInfo built from a summary response (name and alias are display text).
RoomInfo(room_id, join_rule) == [room_id |-> room_id, join_rule |-> join_rule]

\* The snapshot main() builds when joined_rooms lists the public room !a.
Snapshot == [k \in {"!a:example.org"} |-> RoomInfo(k, "public")]

\* ------------------------------------------------------- request records
NewReq == [handler |-> "none", pc |-> "idle", form |-> NoInvite, query |-> NoCallback,
           turnstile |-> "none", csrf_token |-> NoToken, invite |-> NoInvite,
           age |-> NoAge, resp |-> NoResp]

NewHist == [present |-> FALSE, late |-> FALSE, claimed |-> 0, wrote |-> FALSE, failed |-> ""]

\* The external calls.
SiteVerify == [op |-> "siteverify", room_id |-> "", user_id |-> NoUser]

ExchangeCode == [op |-> "exchange_code", room_id |-> "", user_id |-> NoUser]

GithubUser == [op |-> "github_user", room_id |-> "", user_id |-> NoUser]

GetProfile(user_id) == [op |-> "get_profile", room_id |-> "", user_id |-> user_id]

InviteUser(room_id, user_id) == [op |-> "invite_user", room_id |-> room_id, user_id |-> user_id]

\* A handler returns: the response is set and the request is finished.
Return(r, resp) == req' = [req EXCEPT ![r].pc = "done", ![r].resp = resp]

Goto(r, pc) == req' = [req EXCEPT ![r].pc = pc]

Call(r, c) == calls' = [calls EXCEPT ![r] = Append(@, c)]

\* The call just issued came back as an error (or its body did not decode):
\* hist records which operation it was.
Failed(r, op) == hist' = [hist EXCEPT ![r].failed = op]

\* Token values are interchangeable: a value appears in a behaviour (generated
\* by invite or presented to callback) after the values before it in
\* TokenOrder have appeared.
SeenTokens == {req[r].csrf_token : r \in Reqs} \cup {req[r].query.state : r \in Reqs}

NextToken(t) ==
    \A i \in DOMAIN TokenOrder :
       TokenOrder[i] = t => \A j \in 1..(i - 1) : TokenOrder[j] \in SeenTokens

\* Requests are interchangeable: request r is accepted after request r - 1.
CanStart(r) == /\ mainPc = "serving"
               /\ req[r].pc = "idle"
               /\ IF r = 1 THEN TRUE ELSE req[r - 1].pc # "idle"

\* ------------------------------------------------------------ main()
\* joined_rooms request (main.rs 312-315): the response lists rooms in some
\* order, or the request fails and `?` ends main.
MainJoinedRooms ==
    /\ mainPc = "joined_rooms"
    /\ \/ /\ mainPc' = "failed"
          /\ UNCHANGED joined
       \/ /\ mainPc' = "summaries"
          /\ \E S \in SUBSET RoomIds :
               \E f \in [1..Cardinality(S) -> S] :
                  /\ \A i, j \in DOMAIN f : i # j => f[i] # f[j]
                  /\ joined' = f
    /\ UNCHANGED <<canInvite, rooms, csrf, lock, req, calls, src, spent, hist, botVars>>

\* One turn of the loop over joined_rooms (main.rs 318-334): get_summary is
\* requested for the head of the list; the entry is stored under the room_id
\* the response carries, with the join_rule it carries.
MainSummary ==
    /\ mainPc = "summaries"
    /\ joined # <<>>
    /\ \/ /\ mainPc' = "failed"
          /\ UNCHANGED <<joined, rooms>>
       \/ /\ \E room_id \in RoomIds, join_rule \in JoinRules :
               rooms' = HashMapInsert(rooms, room_id, RoomInfo(room_id, join_rule))
          /\ joined' = Tail(joined)
          /\ UNCHANGED mainPc
    /\ UNCHANGED <<canInvite, csrf, lock, req, calls, src, spent, hist, botVars>>

\* The loop is over: the OAuth2 client is built, `?` ending main when a URL
\* does not parse, then AppState and the router (main.rs 336-360).
MainAppState ==
    /\ mainPc = "summaries"
    /\ joined = <<>>
    /\ \/ /\ mainPc' = "failed"
          /\ UNCHANGED csrf
       \/ /\ mainPc' = "bind"
          /\ csrf' = EmptyMap
    /\ UNCHANGED <<joined, canInvite, rooms, lock, req, calls, src, spent, hist, botVars>>

\* TcpListener::bind(listen_address).await? (main.rs 362).
MainBind ==
    /\ mainPc = "bind"
    /\ mainPc' \in {"serve", "failed"}
    /\ UNCHANGED <<joined, canInvite, rooms, csrf, lock, req, calls, src, spent, hist, botVars>>

\* axum::serve(listener, app).await? (main.rs 363): the router accepts
\* requests, or the future resolves to an error and `?` ends main.
MainServe ==
    /\ mainPc = "serve"
    /\ mainPc' \in {"serving", "failed"}
    /\ UNCHANGED <<joined, canInvite, rooms, csrf, lock, req, calls, src, spent, hist, botVars>>

\* ------------------------------------------------------------ GET /
\* index (main.rs 51-69): renders the snapshot, touches nothing; a template
\* error answers 500.
Index(r) ==
    /\ CanStart(r)
    /\ \E ok \in BOOLEAN :
         req' = [req EXCEPT ![r].handler = "index", ![r].pc = "done",
                            ![r].resp = IF ok THEN [status |-> OK, body |-> "index.html",
                                                    location |-> NoToken]
                                        ELSE Err(INTERNAL_SERVER_ERROR, "")]
    /\ UNCHANGED <<mainPc, joined, canInvite, rooms, csrf, lock, calls, src, spent, hist, botVars>>

\* ------------------------------------------------------------ POST /invite
\* axum extracts Form<Invite> and enters invite (main.rs 207-210).
InviteBegin(r) ==
    /\ CanStart(r)
    /\ \E f \in Invite :
         req' = [req EXCEPT ![r].handler = "invite", ![r].pc = "inv_verify", ![r].form = f]
    /\ UNCHANGED <<mainPc, joined, canInvite, rooms, csrf, lock, calls, src, spent, hist, botVars>>

\* The siteverify request, `.send().await` (main.rs 211-228).
InviteVerify(r) ==
    /\ req[r].pc = "inv_verify"
    /\ Call(r, SiteVerify)
    /\ \/ /\ req' = [req EXCEPT ![r].pc = "done", ![r].turnstile = "send_error",
                                ![r].resp = Err(INTERNAL_SERVER_ERROR,
                                                "failed to verify turnstile response")]
          /\ Failed(r, "siteverify")
       \/ /\ Goto(r, "inv_json")
          /\ UNCHANGED hist
    /\ UNCHANGED <<mainPc, joined, canInvite, rooms, csrf, lock, src, spent, botVars>>

\* The decoding of the answer, `.json().await`, then the two checks and the
\* authorize URL (main.rs 229-253).
InviteVerifyJson(r) ==
    /\ req[r].pc = "inv_json"
    /\ \/ /\ req' = [req EXCEPT ![r].pc = "done", ![r].turnstile = "decode_error",
                                ![r].resp = Err(INTERNAL_SERVER_ERROR,
                                                "failed to decode turnstile verify result")]
          /\ Failed(r, "siteverify")
       \/ /\ \E success \in BOOLEAN :
               LET answer == IF success THEN "success" ELSE "failure" IN
               IF VerificationFailed(success)
               THEN req' = [req EXCEPT ![r].pc = "done", ![r].turnstile = answer,
                                       ![r].resp = Err(FORBIDDEN, "turnstile verification failed")]
               ELSE IF ~HashMapContainsKey(rooms, req[r].form.room_id)
               THEN req' = [req EXCEPT ![r].pc = "done", ![r].turnstile = answer,
                                       ![r].resp = Err(BAD_REQUEST, "invalid room_id")]
               ELSE \E t \in Tokens :
                      /\ NextToken(t)
                      /\ req' = [req EXCEPT ![r].pc = "inv_lock", ![r].turnstile = answer,
                                            ![r].csrf_token = t]
          /\ UNCHANGED hist
    /\ UNCHANGED <<mainPc, joined, canInvite, rooms, csrf, lock, calls, src, spent, botVars>>

\* state.csrf.lock().await (main.rs 255-258).
InviteLock(r) ==
    /\ req[r].pc = "inv_lock"
    /\ lock = 0
    /\ lock' = r
    /\ Goto(r, "inv_insert")
    /\ UNCHANGED <<mainPc, joined, canInvite, rooms, csrf, calls, src, spent, hist, botVars>>

\* .insert(token, invite), the guard is dropped, Redirect::to(auth_url)
\* (main.rs 259-261).
InviteInsert(r) ==
    /\ req[r].pc = "inv_insert"
    /\ lock = r
    /\ csrf' = HashMapInsert(csrf, req[r].csrf_token, req[r].form)
    /\ lock' = 0
    /\ Return(r, [status |-> SEE_OTHER, body |-> "authorize", location |-> req[r].csrf_token])
    /\ src' = [src EXCEPT ![req[r].csrf_token] = r]
    /\ spent' = spent \ {req[r].csrf_token}
    /\ hist' = [hist EXCEPT ![r].wrote = TRUE]
    /\ UNCHANGED <<mainPc, joined, canInvite, rooms, calls, botVars>>

\* ------------------------------------------------------------ GET /callback
\* axum extracts Query<Callback> and enters callback (main.rs 83-86).
CallbackBegin(r) ==
    /\ CanStart(r)
    /\ \E q \in Callback :
         /\ NextToken(q.state)
         /\ req' = [req EXCEPT ![r].handler = "callback", ![r].pc = "cb_lock", ![r].query = q]
    /\ UNCHANGED <<mainPc, joined, canInvite, rooms, csrf, lock, calls, src, spent, hist, botVars>>

\* state.csrf.lock().await (main.rs 87-90).
CallbackLock(r) ==
    /\ req[r].pc = "cb_lock"
    /\ lock = 0
    /\ lock' = r
    /\ Goto(r, "cb_remove")
    /\ UNCHANGED <<mainPc, joined, canInvite, rooms, csrf, calls, src, spent, hist, botVars>>

\* The rejection of an unknown state value (main.rs 92).
InvalidToken == Err(BAD_REQUEST, "invalid csrf token")

\* Mutant: the guard is bound to a name that lives to the end of the function,
\* so a callback that found its entry keeps the lock through its calls.
CallbackRemoveHoldsGuard(r) ==
    LET k == req[r].query.state
        found == RemovedSome(csrf, k)
    IN
    /\ req[r].pc = "cb_remove"
    /\ lock = r
    /\ csrf' = HashMapRemove(csrf, k)
    /\ lock' = IF found THEN r ELSE 0
    /\ IF found
       THEN req' = [req EXCEPT ![r].pc = "cb_exchange", ![r].invite = RemovedValue(csrf, k)]
       ELSE Return(r, InvalidToken)
    /\ hist' = [hist EXCEPT ![r].present = k \in DOMAIN csrf,
                            ![r].late = k \in spent,
                            ![r].claimed = IF found /\ k \in DOMAIN csrf THEN src[k] ELSE 0,
                            ![r].wrote = csrf' # csrf]
    /\ spent' = IF found THEN spent \cup {k} ELSE spent
    /\ UNCHANGED <<mainPc, joined, canInvite, rooms, calls, src, botVars>>

\* Mutant: the entry is looked up in one critical section and removed in
\* another, so a second callback can read it in between.
CallbackRemoveTwoSections(r) ==
    LET k == req[r].query.state IN
    /\ req[r].pc = "cb_remove"
    /\ \/ /\ lock = r
          /\ lock' = 0
          /\ IF RemovedSome(csrf, k)
             THEN req' = [req EXCEPT ![r].invite = RemovedValue(csrf, k)]
             ELSE Return(r, InvalidToken)
          /\ hist' = [hist EXCEPT ![r].present = k \in DOMAIN csrf,
                                  ![r].late = k \in spent,
                                  ![r].claimed = IF k \in DOMAIN csrf THEN src[k] ELSE 0]
          /\ UNCHANGED <<csrf, spent>>
       \/ /\ lock = 0
          /\ req[r].invite # NoInvite
          /\ csrf' = HashMapRemove(csrf, k)
          /\ Goto(r, "cb_exchange")
          /\ spent' = spent \cup {k}
          /\ UNCHANGED <<lock, hist>>
    /\ UNCHANGED <<mainPc, joined, canInvite, rooms, calls, src, botVars>>

\* .remove(&query.state).ok_or(400 "invalid csrf token")?, the guard is
\* dropped (main.rs 91-92).  hist and spent record what the handler met.
CallbackRemove(r) ==
    LET k == req[r].query.state
        found == RemovedSome(csrf, k)
    IN
    /\ req[r].pc = "cb_remove"
    /\ lock = r
    /\ csrf' = HashMapRemove(csrf, k)
    /\ lock' = 0
    /\ IF found
       THEN req' = [req EXCEPT ![r].pc = "cb_exchange", ![r].invite = RemovedValue(csrf, k)]
       ELSE Return(r, InvalidToken)
    /\ hist' = [hist EXCEPT ![r].present = k \in DOMAIN csrf,
                            ![r].late = k \in spent,
                            ![r].claimed = IF found /\ k \in DOMAIN csrf THEN src[k] ELSE 0,
                            ![r].wrote = csrf' # csrf]
    /\ spent' = IF found THEN spent \cup {k} ELSE spent
    /\ UNCHANGED <<mainPc, joined, canInvite, rooms, calls, src, botVars>>

\* Mutant: a failed exchange is tried again.
CallbackExchangeRetries(r) ==
    /\ req[r].pc = "cb_exchange"
    /\ Call(r, ExchangeCode)
    /\ \/ /\ Goto(r, "cb_exchange")
          /\ Failed(r, "exchange_code")
       \/ /\ Goto(r, "cb_user")
          /\ UNCHANGED hist
    /\ UNCHANGED <<mainPc, joined, canInvite, rooms, csrf, lock, src, spent, botVars>>

\* Mutant: a failed exchange puts the pending entry back under its token.
CallbackExchangeRestores(r) ==
    /\ req[r].pc = "cb_exchange"
    /\ Call(r, ExchangeCode)
    /\ \/ /\ Return(r, Err(BAD_REQUEST, "failed to exchange for token"))
          /\ Failed(r, "exchange_code")
          /\ csrf' = HashMapInsert(csrf, req[r].query.state, req[r].invite)
          /\ spent' = spent \ {req[r].query.state}
       \/ /\ Goto(r, "cb_user")
          /\ UNCHANGED <<hist, csrf, spent>>
    /\ UNCHANGED <<mainPc, joined, canInvite, rooms, lock, src, botVars>>

\* exchange_code(..).request_async(..).await (main.rs 94-105).
CallbackExchange(r) ==
    /\ req[r].pc = "cb_exchange"
    /\ Call(r, ExchangeCode)
    /\ \/ /\ Return(r, Err(BAD_REQUEST, "failed to exchange for token"))
          /\ Failed(r, "exchange_code")
       \/ /\ Goto(r, "cb_user")
          /\ UNCHANGED hist
    /\ UNCHANGED <<mainPc, joined, canInvite, rooms, csrf, lock, src, spent, botVars>>

\* reqwest client build and GET api.github.com/user, `.send().await`
\* (main.rs 107-127).
CallbackUser(r) ==
    /\ req[r].pc = "cb_user"
    /\ \/ /\ Return(r, Err(INTERNAL_SERVER_ERROR, "failed to build client"))
          /\ UNCHANGED <<calls, hist>>
       \/ /\ Call(r, GithubUser)
          /\ \/ /\ Return(r, Err(INTERNAL_SERVER_ERROR, "failed to get user info"))
                /\ Failed(r, "github_user")
             \/ /\ Goto(r, "cb_user_json")
                /\ UNCHANGED hist
    /\ UNCHANGED <<mainPc, joined, canInvite, rooms, csrf, lock, src, spent, botVars>>

\* The decoding of the user, `.json().await`, then the age and the policy
\* test (main.rs 128-155).
CallbackUserJson(r) ==
    /\ req[r].pc = "cb_user_json"
    /\ \/ /\ Return(r, Err(INTERNAL_SERVER_ERROR, "failed to decode user info"))
          /\ Failed(r, "github_user")
       \/ /\ \E created_at \in CreatedAts :
               LET age == SignedDurationSince(Now, created_at) IN
               IF LikelyAbusive(req[r].invite.user_id, age)
               THEN req' = [req EXCEPT ![r].pc = "done", ![r].age = age,
                                       ![r].resp = Err(FORBIDDEN, "")]
               ELSE req' = [req EXCEPT ![r].pc = "cb_profile", ![r].age = age]
          /\ UNCHANGED hist
    /\ UNCHANGED <<mainPc, joined, canInvite, rooms, csrf, lock, calls, src, spent, botVars>>

\* Mutant: the profile fetch is best effort, a failure is logged and the
\* handler goes on to invite.
CallbackProfileBestEffort(r) ==
    /\ req[r].pc = "cb_profile"
    /\ Call(r, GetProfile(req[r].invite.user_id))
    /\ \/ /\ Goto(r, "cb_invite")
          /\ Failed(r, "get_profile")
       \/ /\ Goto(r, "cb_invite")
          /\ UNCHANGED hist
    /\ UNCHANGED <<mainPc, joined, canInvite, rooms, csrf, lock, src, spent, botVars>>

\* get_profile request (main.rs 157-173).
CallbackProfile(r) ==
    /\ req[r].pc = "cb_profile"
    /\ Call(r, GetProfile(req[r].invite.user_id))
    /\ \/ /\ Return(r, Err(INTERNAL_SERVER_ERROR, "failed to get user profile"))
          /\ Failed(r, "get_profile")
       \/ /\ Goto(r, "cb_invite")
          /\ UNCHANGED hist
    /\ UNCHANGED <<mainPc, joined, canInvite, rooms, csrf, lock, src, spent, botVars>>

\* invite_user request and the confirmation (main.rs 175-204).
CallbackInvite(r) ==
    /\ req[r].pc = "cb_invite"
    /\ Call(r, InviteUser(req[r].invite.room_id, req[r].invite.user_id))
    /\ \/ /\ Return(r, Err(INTERNAL_SERVER_ERROR, "failed to invite user"))
          /\ Failed(r, "invite_user")
       \/ /\ Return(r, [status |-> OK, body |-> "successfully invited user",
                        location |-> NoToken])
          /\ UNCHANGED hist
    /\ UNCHANGED <<mainPc, joined, canInvite, rooms, csrf, lock, src, spent, botVars>>

\* ------------------------------------------------- Join Challenge Engine
\* The engine's source is not among the files modelled above; this part
\* follows the specification text (sections 3 and 4.2).

\* Number of room events the engine handles in one behaviour.
MaxEvents == 3

\* The gatekeeper's own identity and the room's members.
Gatekeeper == "@bouncer:example.org"

Members == {"@alice:example.org", "@bob:example.org", "@carol:example.org"}

\* Reference alphabet size and staleness bound (seconds).
AlphabetSize == 7

StaleBound == 600

\* The room's default event-send level, read from its power levels.
EventsDefault == 0

Alphabet == <<"s0", "s1", "s2", "s3", "s4", "s5", "s6">>

\* A stable hash of the identifier; alice and carol fall on the same symbol.
StableHash(user) ==
    CASE user = "@alice:example.org" -> 10
      [] user = "@bob:example.org" -> 5
      [] user = "@carol:example.org" -> 17
      [] OTHER -> 0

\* ChallengeAssignment: the hash reduced modulo the alphabet size.
ChallengeSymbol(user) == Alphabet[(StableHash(user) % AlphabetSize) + 1]

\* Origination and processing times the model draws from.
BotTimes == {0, 600, 601}

\* Symbols a reaction can carry in the model: alice's and carol's, bob's, nobody's.
ReactionKeys == {"s3", "s5", "s0"}

\* Mutant: the staleness test is left out.
StaleNever(now, origin_ts) == FALSE

\* A join event is stale when it is older than the staleness bound at
\* processing time.
Stale(now, origin_ts) == now - origin_ts > StaleBound

\* Mutant: the author of the reacted-to message is not looked at.
ReactionValidAnyAuthor(sender, key, target_author) == key = ChallengeSymbol(sender)

\* A reaction verifies its sender: own symbol, on a message of the gatekeeper.
ReactionValid(sender, key, target_author) ==
    key = ChallengeSymbol(sender) /\ target_author = Gatekeeper

NoEvent == [kind |-> "none", sender |-> "", origin_ts |-> 0, now |-> 0, key |-> "", target |-> 0]

BotIdle ==
    /\ botTimeline = <<>>
    /\ botSends = <<>>
    /\ botOverrides = <<>>
    /\ botEvent = NoEvent
    /\ botSeen = 0

gateVars == <<mainPc, joined, canInvite, rooms, csrf, lock, req, calls, src, spent, hist>>

\* A member posts an ordinary message in the room (the environment).
BotRoomMessage(u) ==
    /\ botSeen < MaxEvents
    /\ botSeen' = botSeen + 1
    /\ botTimeline' = Append(botTimeline, [author |-> u, names |-> "", symbol |-> ""])
    /\ botEvent' = [NoEvent EXCEPT !.kind = "message", !.sender = u]
    /\ UNCHANGED <<botSends, botOverrides, gateVars>>

\* Member-joined event: compute the symbol, discard a stale event, otherwise
\* send the challenge naming the user and the symbol.
BotOnJoin(u, origin_ts, now) ==
    /\ botSeen < MaxEvents
    /\ now >= origin_ts
    /\ botSeen' = botSeen + 1
    /\ botEvent' = [NoEvent EXCEPT !.kind = "join", !.sender = u,
                                   !.origin_ts = origin_ts, !.now = now]
    /\ IF Stale(now, origin_ts)
       THEN UNCHANGED <<botSends, botTimeline>>
       ELSE LET m == [author |-> Gatekeeper, names |-> u, symbol |-> ChallengeSymbol(u)]
            IN /\ botSends' = Append(botSends, m)
               /\ botTimeline' = Append(botTimeline, m)
    /\ UNCHANGED <<botOverrides, gateVars>>

\* Reaction-added event: one power-level override for the sender when the
\* reaction is valid, nothing otherwise.
BotOnReaction(u, key, target) ==
    /\ botSeen < MaxEvents
    /\ target \in DOMAIN botTimeline
    /\ botSeen' = botSeen + 1
    /\ botEvent' = [NoEvent EXCEPT !.kind = "reaction", !.sender = u,
                                   !.key = key, !.target = target]
    /\ IF ReactionValid(u, key, botTimeline[target].author)
       THEN botOverrides' = Append(botOverrides, [user |-> u, level |-> EventsDefault])
       ELSE UNCHANGED botOverrides
    /\ UNCHANGED <<botSends, botTimeline, gateVars>>

\* ------------------------------------------------------------ specifications
\* The process starts: main() has issued nothing yet.
InitMain ==
    /\ mainPc = "joined_rooms"
    /\ joined = <<>>
    /\ canInvite \in SUBSET RoomIds
    /\ rooms = [k \in {} |-> RoomInfo(k, "public")]
    /\ csrf = EmptyMap
    /\ lock = 0
    /\ req = [r \in Reqs |-> NewReq]
    /\ calls = [r \in Reqs |-> <<>>]
    /\ src = [t \in Tokens |-> 0]
    /\ spent = {}
    /\ hist = [r \in Reqs |-> NewHist]
    /\ BotIdle

NextMain == MainJoinedRooms \/ MainSummary \/ MainAppState \/ MainBind \/ MainServe

SpecMain == InitMain /\ [][NextMain]_vars

\* The router serves: AppState as main() built it (main.rs 346-354) when the
\* gatekeeper has joined the one room Snapshot holds; the other room id is
\* unknown to the service.
Init ==
    /\ mainPc = "serving"
    /\ joined = <<>>
    /\ canInvite = DOMAIN Snapshot
    /\ rooms = Snapshot
    /\ csrf = EmptyMap
    /\ lock = 0
    /\ req = [r \in Reqs |-> NewReq]
    /\ calls = [r \in Reqs |-> <<>>]
    /\ src = [t \in Tokens |-> 0]
    /\ spent = {}
    /\ hist = [r \in Reqs |-> NewHist]
    /\ BotIdle

Next ==
    \E r \in Reqs :
       \/ Index(r)
       \/ InviteBegin(r)
       \/ InviteVerify(r)
       \/ InviteVerifyJson(r)
       \/ InviteLock(r)
       \/ InviteInsert(r)
       \/ CallbackBegin(r)
       \/ CallbackLock(r)
       \/ CallbackRemove(r)
       \/ CallbackExchange(r)
       \/ CallbackUser(r)
       \/ CallbackUserJson(r)
       \/ CallbackProfile(r)
       \/ CallbackInvite(r)

Spec == Init /\ [][Next]_vars

\* The steps of handler r that contain no await on the network: taking the
\* store's lock and the store operation under it.
LocalStep(r) == InviteLock(r) \/ InviteInsert(r) \/ CallbackLock(r) \/ CallbackRemove(r)

\* The steps of handler r that end when a collaborator answers.
NetworkStep(r) ==
    \/ InviteVerify(r)
    \/ InviteVerifyJson(r)
    \/ CallbackExchange(r)
    \/ CallbackUser(r)
    \/ CallbackUserJson(r)
    \/ CallbackProfile(r)
    \/ CallbackInvite(r)

\* The runtime keeps polling every task that can run, and the mutex hands the
\* lock on when it is released: local steps are taken.  Nothing makes a
\* collaborator answer: no timeout is set on any call.
SpecFair == Spec /\ \A r \in Reqs : WF_vars(LocalStep(r))

\* The engine alone: the gate stays as it starts.
NextBot ==
    \E u \in Members :
       \/ BotRoomMessage(u)
       \/ \E origin_ts \in BotTimes, now \in BotTimes : BotOnJoin(u, origin_ts, now)
       \/ \E key \in ReactionKeys, target \in 1..MaxEvents : BotOnReaction(u, key, target)

SpecBot == Init /\ [][NextBot]_vars

\* ------------------------------------------------------------------ claims
Done(r) == req[r].pc = "done"

\* Number of calls of one kind a request has issued.
CountOp(r, op) == Cardinality({i \in DOMAIN calls[r] : calls[r][i].op = op})

\* The room-service operations.
RoomServiceOps == {"get_profile", "invite_user"}

NoRoomServiceCall(r) == \A i \in DOMAIN calls[r] : calls[r][i].op \notin RoomServiceOps

\* Positions at which a handler awaits a network call.
NetworkPcs ==
    {"inv_verify", "inv_json", "cb_exchange", "cb_user", "cb_user_json", "cb_profile",
     "cb_invite"}

\* Positions at which a handler holds the store's guard: the insert of invite
\* and the remove of callback.
CriticalPcs == {"inv_insert", "cb_remove"}

\* The collaborator operations.
CollaboratorOps == {"siteverify", "exchange_code", "github_user", "get_profile", "invite_user"}

\* Verification-adapter outcomes other than success.
NegativeVerdicts == {"send_error", "decode_error", "failure"}

\* Bodies of the responses that report a collaborator failure.
CollaboratorFailures ==
    {"failed to verify turnstile response", "failed to decode turnstile verify result",
     "failed to exchange for token", "failed to get user info",
     "failed to decode user info", "failed to get user profile", "failed to invite user"}

\* C1 (as stated): a POST /invite whose room_id is not a key of the snapshot
\* is rejected before any external call: it issues no call at all (not the
\* verification adapter either), stores no pending entry and generates no
\* token.
C1_UnknownRoomRejectedBeforeAnyCall ==
    \A r \in Reqs :
       (req[r].handler = "invite" /\ ~HashMapContainsKey(rooms, req[r].form.room_id))
          => /\ calls[r] = <<>>
             /\ ~hist[r].wrote
             /\ req[r].csrf_token = NoToken

\* C2: when the verification adapter answers success = false, or the call or
\* its decoding fails, invite has returned a rejection (403 or 500), no
\* redirect; it stored no pending entry, did not touch the store and issued
\* no call besides the one verification call.
C2_NegativeVerificationBlocks ==
    \A r \in Reqs :
       (req[r].handler = "invite" /\ req[r].turnstile \in NegativeVerdicts)
          => /\ Done(r)
             /\ req[r].resp.status \in {FORBIDDEN, INTERNAL_SERVER_ERROR}
             /\ req[r].resp.location = NoToken
             /\ req[r].csrf_token = NoToken
             /\ ~hist[r].wrote
             /\ \A t \in DOMAIN csrf : src[t] # r
             /\ calls[r] = <<SiteVerify>>

\* C2 witness: a submit answered success = false was rejected with 403 while
\* another submit's entry is in the store.
C2_Witness ==
    \E r \in Reqs :
       /\ req[r].turnstile = "failure"
       /\ Done(r)
       /\ req[r].resp.status = FORBIDDEN
       /\ DOMAIN csrf # {}

\* C3: a callback whose state value was already taken by an earlier callback,
\* with no submit storing that value again since, has been rejected with
\* 400 "invalid csrf token" and has issued no call, so no invite.
C3_TokensSingleUse ==
    \A r \in Reqs :
       hist[r].late
          => /\ Done(r)
             /\ req[r].resp = InvalidToken
             /\ calls[r] = <<>>
             /\ hist[r].claimed = 0

\* C3 witness: a second callback with a spent state value got the 400.
C3_Witness ==
    \E r \in Reqs :
       /\ req[r].handler = "callback"
       /\ hist[r].late
       /\ Done(r)
       /\ req[r].resp.status = BAD_REQUEST

\* C4: under every interleaving no two callbacks obtain the same stored
\* entry, and a callback issues one invite call at most and none unless it
\* obtained an entry: at most one invite call is issued per stored entry.
C4_AtMostOneClaim ==
    /\ \A r1, r2 \in Reqs :
          (r1 # r2 /\ hist[r1].claimed # 0) => hist[r1].claimed # hist[r2].claimed
    /\ \A r \in Reqs :
          CountOp(r, "invite_user") <= (IF hist[r].claimed # 0 THEN 1 ELSE 0)

\* C4 witness: two callbacks presented the same state value; the one accepted
\* later won the lock, obtained the entry and is still in flight, the one
\* accepted first has been rejected.
C4_Witness ==
    \E r1, r2 \in Reqs :
       /\ r2 < r1
       /\ req[r1].handler = "callback"
       /\ req[r2].handler = "callback"
       /\ req[r1].query.state = req[r2].query.state
       /\ hist[r1].claimed # 0
       /\ ~Done(r1)
       /\ Done(r2)
       /\ req[r2].resp = InvalidToken

\* C5: a callback whose target user is on matrix.org and whose linked account
\* is younger than the threshold has been rejected with 403 and has issued
\* no room-service call (no profile fetch, no invite).
C5_YoungMatrixOrgRejected ==
    \A r \in Reqs :
       (/\ req[r].handler = "callback"
        /\ req[r].age # NoAge
        /\ ServerName(req[r].invite.user_id) = "matrix.org"
        /\ req[r].age < OneDay)
          => /\ Done(r)
             /\ req[r].resp.status = FORBIDDEN
             /\ NoRoomServiceCall(r)

\* C5 witness: the account was created 2 hours ago, the submit had passed
\* human verification, and the callback was answered 403.
C5_Witness ==
    \E r \in Reqs :
       /\ req[r].age = 7200
       /\ ServerName(req[r].invite.user_id) = "matrix.org"
       /\ req[r].resp.status = FORBIDDEN
       /\ hist[r].claimed # 0
       /\ req[hist[r].claimed].turnstile = "success"

\* C6: a callback whose state value was not in the store when it looked it up
\* has been rejected with 400 "invalid csrf token", has issued no call, has
\* obtained no invite and has not changed the store.
C6_UnknownStateRejected ==
    \A r \in Reqs :
       (/\ req[r].handler = "callback"
        /\ req[r].pc \notin {"cb_lock", "cb_remove"}
        /\ ~hist[r].present)
          => /\ Done(r)
             /\ req[r].resp = InvalidToken
             /\ calls[r] = <<>>
             /\ req[r].invite = NoInvite
             /\ ~hist[r].wrote

\* C6 witness: such a callback was rejected while another token's entry
\* stayed in the store.
C6_Witness ==
    \E r \in Reqs :
       /\ req[r].handler = "callback"
       /\ Done(r)
       /\ ~hist[r].present
       /\ req[r].resp = InvalidToken
       /\ DOMAIN csrf # {}

\* C7 (as stated): a negative verification result answers 403, an unknown
\* room (after a passed verification) answers 400, and every collaborator
\* failure answers 404 or 5xx, never 2xx/3xx and never 400.
C7_StatusMapping ==
    \A r \in Reqs :
       Done(r)
          => /\ req[r].turnstile = "failure" => req[r].resp.status = FORBIDDEN
             /\ (/\ req[r].handler = "invite"
                 /\ req[r].turnstile = "success"
                 /\ ~HashMapContainsKey(rooms, req[r].form.room_id))
                   => req[r].resp.status = BAD_REQUEST
             /\ req[r].resp.body \in CollaboratorFailures
                   => (req[r].resp.status = 404 \/ req[r].resp.status >= 500)

\* C8 (as stated): once main() serves, every room of the snapshot is a room
\* in which the gatekeeper has invite authority.
C8_SnapshotRoomsHaveInviteAuthority ==
    mainPc = "serving" => \A k \in DOMAIN rooms : k \in canInvite

\* C9: handling a reaction issues a power-level override for the reacting
\* user, at the room's default send level, exactly when the symbol is that
\* user's own derived symbol and the reacted-to message is the gatekeeper's;
\* then exactly one override is added, otherwise none; no other event changes
\* the overrides.
C9_PromotionRule ==
    [][botSeen' = botSeen + 1 =>
         IF botEvent'.kind = "reaction"
         THEN IF /\ botEvent'.key = ChallengeSymbol(botEvent'.sender)
                 /\ botTimeline[botEvent'.target].author = Gatekeeper
              THEN botOverrides' = Append(botOverrides, [user |-> botEvent'.sender,
                                                         level |-> EventsDefault])
              ELSE botOverrides' = botOverrides
         ELSE botOverrides' = botOverrides]_vars

\* C9 witness: after bob reacted with alice's symbol to alice's challenge
\* (no change), alice reacted with her own symbol to it and was promoted once.
C9_Witness ==
    /\ botEvent.kind = "reaction"
    /\ botEvent.sender = "@alice:example.org"
    /\ botEvent.key = ChallengeSymbol("@alice:example.org")
    /\ botTimeline[botEvent.target].author = Gatekeeper
    /\ botTimeline[botEvent.target].names = "@alice:example.org"
    /\ botSeen = 3
    /\ botOverrides = <<[user |-> "@alice:example.org", level |-> EventsDefault]>>

\* C10: handling a join event older than the staleness bound sends no
\* challenge message; handling one within the bound sends exactly one, naming
\* the user and the user's symbol.
C10_StalenessRule ==
    [][(botSeen' = botSeen + 1 /\ botEvent'.kind = "join") =>
         IF botEvent'.now - botEvent'.origin_ts > StaleBound
         THEN botSends' = botSends
         ELSE botSends' = Append(botSends, [author |-> Gatekeeper,
                                            names |-> botEvent'.sender,
                                            symbol |-> ChallengeSymbol(botEvent'.sender)])]_vars

\* C10 witness: a join within the bound was challenged, then a join 601 s old
\* was discarded.
C10_Witness ==
    /\ botEvent.kind = "join"
    /\ botEvent.now - botEvent.origin_ts = 601
    /\ botSeen = 2
    /\ Len(botSends) = 1
    /\ botSends[1].names # botEvent.sender

\* C11 (as stated): the heuristic rejects a callback exactly when the target
\* user's origin is matrix.org and the linked account's age is strictly below
\* one day; at an age of exactly one day, or for another origin at any age,
\* the callback goes on to the privileged invite.
C11_RejectsIffStrictlyYounger ==
    \A r \in Reqs :
       (req[r].handler = "callback" /\ req[r].age # NoAge)
          => ((Done(r) /\ req[r].resp = Err(FORBIDDEN, "") /\ NoRoomServiceCall(r))
                 <=> (/\ ServerName(req[r].invite.user_id) = "matrix.org"
                      /\ req[r].age < OneDay))

\* C12: the store's lock is held only for the single insert of invite or the
\* single lookup-and-remove of callback: whoever holds it is at that operation,
\* and no handler that is waiting on a network call holds it.
C12_LockNotHeldAcrossCalls ==
    /\ lock # 0 => req[lock].pc \in CriticalPcs
    /\ \A r \in Reqs : req[r].pc \in NetworkPcs => lock # r

\* C12 witness: one handler holds the lock for its store operation while a
\* callback that has taken and released the lock waits on the code exchange.
C12_Witness ==
    \E r1, r2 \in Reqs :
       /\ lock = r1
       /\ req[r1].pc \in CriticalPcs
       /\ req[r2].pc = "cb_exchange"
       /\ hist[r2].claimed # 0

\* C13: a stalled collaborator stalls only the handler that called it.
\* Whatever the other handlers do, and so also when some of them wait forever
\* on a call that never returns, a handler whose own calls return runs to
\* completion: it is not held up by a stalled handler or by the store's lock.
C13_StallIsLocal ==
    \A r \in Reqs : WF_vars(NetworkStep(r)) => ((req[r].pc # "idle") ~> Done(r))

\* C13 witness: a callback accepted after a handler that is still waiting on
\* its call went through the lock, made its four calls and was answered 200.
C13_Witness ==
    \E s, r \in Reqs :
       /\ s < r
       /\ req[s].pc \in NetworkPcs
       /\ req[r].handler = "callback"
       /\ Done(r)
       /\ req[r].resp.status = OK
       /\ Len(calls[r]) = 4

C16_ProfileThenInvite ==
    \A r \in Reqs :
       req[r].handler = "callback"
          => /\ \A i \in DOMAIN calls[r] :
                   calls[r][i].op = "invite_user"
                      => /\ i > 1
                         /\ calls[r][i - 1].op = "get_profile"
                         /\ hist[r].failed # "get_profile"
             /\ hist[r].failed = "get_profile"
                   => /\ Done(r)
                      /\ req[r].resp.status >= 400
                      /\ CountOp(r, "invite_user") = 0
             /\ (Done(r) /\ CountOp(r, "get_profile") = 1 /\ hist[r].failed # "get_profile")
                   => CountOp(r, "invite_user") = 1
             /\ req[r].resp.status = OK
                   => /\ CountOp(r, "invite_user") = 1
                      /\ hist[r].failed = ""

\* C16 witness: the profile fetch of a callback that passed the heuristic
\* failed; the handler answered 500 after three calls, none of them an invite.
C16_Witness ==
    \E r \in Reqs :
       /\ hist[r].failed = "get_profile"
       /\ req[r].age # NoAge
       /\ Done(r)
       /\ req[r].resp.status = INTERNAL_SERVER_ERROR
       /\ Len(calls[r]) = 3

\* C17: no handler calls a collaborator operation twice, and once a call has
\* failed the handler has returned an error response, the failed call being
\* the last one it issued.
C17_NoRetry ==
    \A r \in Reqs :
       /\ \A op \in CollaboratorOps : CountOp(r, op) <= 1
       /\ hist[r].failed # ""
             => /\ Done(r)
                /\ req[r].resp.status >= 400
                /\ calls[r] # <<>>
                /\ calls[r][Len(calls[r])].op = hist[r].failed

\* C17 witness: the profile request to the identity provider, a callback's
\* second call, failed and the handler answered 500 without a third call.
C17_Witness ==
    \E r \in Reqs :
       /\ hist[r].failed = "github_user"
       /\ Done(r)
       /\ req[r].resp.status = INTERNAL_SERVER_ERROR
       /\ Len(calls[r]) = 2

\* C18: every invite call is issued by a callback, for the room and the user
\* of the entry it took from the store under the state value it presented;
\* that entry was stored by a submit that generated this token, whose
\* verification answered success and whose room is a key of the snapshot.
\* invite itself issues no invite call.
C18_InviteProvenance ==
    \A r \in Reqs :
       \A i \in DOMAIN calls[r] :
          calls[r][i].op = "invite_user"
             => /\ req[r].handler = "callback"
                /\ hist[r].claimed # 0
                /\ LET e == req[hist[r].claimed] IN
                      /\ e.handler = "invite"
                      /\ e.resp.status = SEE_OTHER
                      /\ e.turnstile = "success"
                      /\ e.csrf_token = req[r].query.state
                      /\ e.form.room_id \in DOMAIN rooms
                      /\ calls[r][i].room_id = e.form.room_id
                      /\ calls[r][i].user_id = e.form.user_id
                      /\ calls[hist[r].claimed] = <<SiteVerify>>

\* C18 witness: a callback invited the user of one submit into its room while
\* the entry of another submit, for another user, was in the store.
C18_Witness ==
    \E r \in Reqs, t \in DOMAIN csrf :
       /\ CountOp(r, "invite_user") = 1
       /\ req[r].resp.status = OK
       /\ hist[r].claimed # 0
       /\ csrf[t].user_id # req[r].invite.user_id

\* C19: the entry a callback took is not in the store again afterwards,
\* whatever happens to that callback (failed exchange, failed profile fetch,
\* rejection by the heuristic, failed room-service call); a later callback
\* with the same state value is rejected with 400 "invalid csrf token".
C19_ConsumedNotRestored ==
    \A r \in Reqs :
       /\ hist[r].claimed # 0
             => ~(/\ req[r].query.state \in DOMAIN csrf
                  /\ src[req[r].query.state] = hist[r].claimed)
       /\ hist[r].late => (Done(r) /\ req[r].resp = InvalidToken /\ req[r].invite = NoInvite)

\* C19 witness: the code exchange of a callback failed after it had taken its
\* entry; a later callback with the same state value was answered 400
\* "invalid csrf token".
C19_Witness ==
    \E r1, r2 \in Reqs :
       /\ r1 < r2
       /\ hist[r1].claimed # 0
       /\ hist[r1].failed = "exchange_code"
       /\ req[r2].handler = "callback"
       /\ req[r2].query.state = req[r1].query.state
       /\ hist[r2].late
       /\ req[r2].resp = InvalidToken

====
